---- MODULE Spec2Model ----
(***************************************************************************)
(* State-machine model of VISA_server/main.cpp: the start-up sequence of   *)
(* main (resource manager, findInstrument, long-lived session, listener),  *)
(* the accept loop, and handle_client (one request line per connection).   *)
(*                                                                         *)
(* Text is modelled as sequences of one-character strings.  A fixed        *)
(* message of the program is one token standing for its bytes (the source  *)
(* literals are Japanese; the tokens are ASCII names for them); no such    *)
(* token contains a line feed or a NUL.                                    *)
(***************************************************************************)
EXTENDS Integers, Sequences, FiniteSets, TLC

\* ------------------------------------------------------------- bounds
\* Largest number of resources viFindRsrc reports.
MaxRsrc == 3
\* Largest number of connections the accept loop accepts in a run.
MaxConns == 2

\* ---------------------------------------------------- program constants
VI_NULL == 0
READ_BUFFER_SIZE == 2048
IDN_BUFFER_SIZE == 256

NUL == "NUL"
LF == "\n"
CR == "\r"

\* The key main passes to findInstrument.
KEY == <<"T", "E", "K", "T", "R", "O", "N", "I", "X">>

\* reply of a non-query command (line 181)
ACK_TEXT == <<"ACK: command sent (no reply)">>
\* reply when viRead fails (line 194)
READ_ERROR_TEXT == <<"ERROR: reading the response failed">>
\* the string literal of line 177, which ends in a line feed
WRITE_ERROR_LITERAL == <<"ERROR: writing to the instrument failed", LF>>
\* prefix of the message of the catch handler (line 206)
SERVER_ERROR_PREFIX == <<"SERVER ERROR: ">>

\* ------------------------------------------------------------ helpers
Min(a, b) == IF a < b THEN a ELSE b

Take(s, n) == SubSeq(s, 1, Min(n, Len(s)))

Drop(s, n) == SubSeq(s, Min(n, Len(s)) + 1, Len(s))

Last(s) == s[Len(s)]

Front(s) == SubSeq(s, 1, Len(s) - 1)

\* position of the first occurrence of c in s, 0 when there is none
IndexOf(s, c) ==
    IF \E k \in 1..Len(s) : s[k] = c
    THEN CHOOSE k \in 1..Len(s) : s[k] = c /\ \A j \in 1..(k - 1) : s[j] # c
    ELSE 0

\* a zero-initialised character buffer of the given size holding data
ZeroBuffer(size, data) ==
    [k \in 1..size |-> IF k <= Len(data) THEN data[k] ELSE NUL]

\* std::string(const char*): the characters before the first NUL
CString(buf) ==
    LET z == IndexOf(buf, NUL)
    IN  IF z = 0 THEN buf ELSE SubSeq(buf, 1, z - 1)

UPPER == <<"A", "B", "C", "D", "E", "F", "G", "H", "I", "J", "K", "L", "M",
           "N", "O", "P", "Q", "R", "S", "T", "U", "V", "W", "X", "Y", "Z">>

LOWER == <<"a", "b", "c", "d", "e", "f", "g", "h", "i", "j", "k", "l", "m",
           "n", "o", "p", "q", "r", "s", "t", "u", "v", "w", "x", "y", "z">>

tolower(c) ==
    IF \E k \in 1..Len(UPPER) : UPPER[k] = c
    THEN LOWER[CHOOSE k \in 1..Len(UPPER) : UPPER[k] = c]
    ELSE c

toLower(s) == [k \in 1..Len(s) |-> tolower(s[k])]

\* mutant of Contains: the position std::string::find returns is taken as
\* the truth value, so only a position other than 0 (npos too) counts
ContainsAsFlag(s, sub) ==
    ~(Len(sub) <= Len(s) /\ SubSeq(s, 1, Len(sub)) = sub)

\* std::string::find(sub) != npos
Contains(s, sub) ==
    \E k \in 0..(Len(s) - Len(sub)) : SubSeq(s, k + 1, k + Len(sub)) = sub

\* smallest handle value not in use
NewHandle(inUse) == CHOOSE h \in 1..(Cardinality(inUse) + 1) :
                        h \notin inUse /\ \A g \in 1..(h - 1) : g \in inUse

\* ------------------------------------------------------ the environment
\* identity strings the instruments on the bus answer *IDN? with
IDN_TEK_UPPER == <<"T", "E", "K", "T", "R", "O", "N", "I", "X", ",", "M", "S", "O">>
IDN_TEK_MIXED == <<"a", " ", "T", "e", "k", "t", "r", "o", "n", "i", "x">>
IDN_OTHER == <<"H", "P", "8", "5", "6", "3">>
IDN_NEAR == <<"T", "E", "K", "T", "R", "O", "N", "I", "K", "S">>

IdnSet == {IDN_TEK_UPPER, IDN_TEK_MIXED, IDN_OTHER, IDN_NEAR}

\* A resource on the bus: the identity it answers with, and whether a
\* session to it can be opened and whether its identity query succeeds.
Resources ==
    {[idn |-> d, open |-> TRUE, query |-> TRUE] : d \in IdnSet}
    \cup {[idn |-> IDN_TEK_UPPER, open |-> FALSE, query |-> TRUE],
          [idn |-> IDN_TEK_UPPER, open |-> TRUE, query |-> FALSE]}

RECURSIVE SeqsUpTo(_, _)
SeqsUpTo(S, n) ==
    IF n = 0 THEN {<<>>}
    ELSE LET shorter == SeqsUpTo(S, n - 1)
         IN  shorter \cup {Append(s, x) : s \in {t \in shorter : Len(t) = n - 1}, x \in S}

\* the resource lists viFindRsrc can report
Buses == SeqsUpTo(Resources, MaxRsrc)

\* the resource descriptor of the k-th resource of the find list
Desc(k) == <<"USB0::", k, "::INSTR">>

EMPTY == <<>>

VARIABLES
    pc,           \* position of the program
    exitCode,     \* value main returned; -1 while it runs
    openHandles,  \* the VISA handles that are open
    defaultRM,    \* main: resource manager session
    instr,        \* main: long-lived instrument session
    instrAddress, \* main: descriptor findInstrument returned
    bus,          \* the resources behind the find list
    cursor,       \* position of the find list
    findList,     \* findInstrument: find-list handle
    numInstrs,    \* findInstrument: number of resources reported
    instrDesc,    \* findInstrument: descriptor buffer
    i,            \* findInstrument: loop counter
    idn,          \* findInstrument: result of getInstrumentIdn
    foundAddress, \* findInstrument: result
    instrument,   \* getInstrumentIdn: transient session
    probes,       \* history: find-list positions getInstrumentIdn was called on
    skipped,      \* history: find-list positions a failed viFindNext passed over
    startupFailure, \* history: the start-up step that failed, "none" if none did
    connCount,    \* number of connections accepted so far
    cliData,      \* the bytes the connected client sends before it closes
    hcCalls,      \* history: calls of handle_client for the current connection
    hcResult,     \* how handle_client ended: "none", "returned" or "threw"
    command,      \* handle_client: the request line
    reply,        \* handle_client: the reply string
    what,         \* handle_client: e.what() of the exception caught
    instrOut,     \* the instrument's output queue: messages not read yet
    instrWrites,  \* history: the buffers passed to viWrite in this connection
    viReads,      \* history: number of viRead calls in this connection
    sent,         \* history: the buffers passed to the socket write, in order
    wire,         \* the bytes that reached the client
    faults,       \* history: the operations that failed in this connection
    viReadData,   \* history: the bytes the last viRead reported as returned
    hadFault,     \* history: an earlier connection had a failed operation
    viReadFrom    \* history: the connection whose line made the bytes last read

startVars == <<startupFailure, exitCode, openHandles, defaultRM, instr, instrAddress, bus, cursor,
               findList, numInstrs, instrDesc, i, idn, foundAddress, instrument,
               probes, skipped>>

connVars == <<connCount, cliData, hcCalls, hcResult, command, reply, what, instrOut,
              instrWrites, viReads, sent, wire, faults, viReadData, hadFault,
              viReadFrom>>

hcVars == <<command, reply, what, instrOut, instrWrites, viReads, sent, wire, faults,
            viReadData, viReadFrom>>

vars == <<pc, startVars, connVars>>

findVars == <<bus, cursor, findList, numInstrs, instrDesc, i, idn, foundAddress,
              instrument, probes, skipped>>

\* ------------------------------------------------------------ start-up
\* main, lines 223-231: viOpenDefaultRM
OpenDefaultRM ==
    /\ pc = "main_openRM"
    /\ \E ok \in BOOLEAN :
          IF ok
          THEN /\ defaultRM' = NewHandle(openHandles)
               /\ openHandles' = openHandles \cup {NewHandle(openHandles)}
               /\ pc' = "fi_findRsrc"
               /\ UNCHANGED <<exitCode, startupFailure>>
          ELSE /\ exitCode' = 1
               /\ startupFailure' = "resource manager"
               /\ pc' = "exit"
               /\ UNCHANGED <<defaultRM, openHandles>>
    /\ UNCHANGED <<instr, instrAddress>>
    /\ UNCHANGED findVars
    /\ UNCHANGED connVars

\* findInstrument, lines 87-106: viFindRsrc and the two early returns.  A
\* call that succeeds with no resource may or may not have made a find list.
FindRsrc ==
    /\ pc = "fi_findRsrc"
    /\ \/ \* status < VI_SUCCESS: return ""
          /\ foundAddress' = EMPTY
          /\ pc' = "main_afterFind"
          /\ UNCHANGED <<openHandles, bus, cursor, findList, numInstrs, instrDesc>>
       \/ \E b \in Buses :
          \E listed \in (IF Len(b) = 0 THEN BOOLEAN ELSE {TRUE}) :
             /\ bus' = b
             /\ numInstrs' = Len(b)
             /\ findList' = IF listed THEN NewHandle(openHandles) ELSE VI_NULL
             /\ openHandles' = IF listed THEN openHandles \cup {NewHandle(openHandles)}
                               ELSE openHandles
             /\ foundAddress' = EMPTY
             /\ IF Len(b) = 0
                THEN /\ pc' = "main_afterFind"
                     /\ UNCHANGED <<cursor, instrDesc>>
                ELSE /\ cursor' = 1
                     /\ instrDesc' = Desc(1)
                     /\ pc' = "gi_open"
    /\ i' = 0
    /\ UNCHANGED <<startupFailure, exitCode, defaultRM, instr, instrAddress, idn, instrument,
                   probes, skipped>>
    /\ UNCHANGED connVars

\* for loop, line 108: ++i and the loop test
NextIteration(n) == IF n < numInstrs THEN "fi_findNext" ELSE "fi_close"

\* findInstrument, lines 109-112: viFindNext; a failure skips the iteration.
\* Whether a failed call moved the find list on is the library's affair.
FindNext ==
    /\ pc = "fi_findNext"
    /\ \/ /\ cursor' = cursor + 1
          /\ instrDesc' = Desc(cursor + 1)
          /\ pc' = "gi_open"
          /\ UNCHANGED <<i, skipped>>
       \/ \E moved \in BOOLEAN :
             /\ cursor' = IF moved THEN cursor + 1 ELSE cursor
             /\ skipped' = IF moved THEN skipped \cup {cursor + 1} ELSE skipped
             /\ i' = i + 1
             /\ pc' = NextIteration(i + 1)
             /\ UNCHANGED instrDesc
    /\ UNCHANGED <<startupFailure, exitCode, openHandles, defaultRM, instr, instrAddress, bus,
                   findList, numInstrs, idn, foundAddress, instrument, probes>>
    /\ UNCHANGED connVars

\* getInstrumentIdn, lines 51-58: viOpen of the transient session
GetIdnOpen ==
    /\ pc = "gi_open"
    /\ probes' = Append(probes, cursor)
    /\ IF bus[cursor].open
       THEN /\ instrument' = NewHandle(openHandles)
            /\ openHandles' = openHandles \cup {NewHandle(openHandles)}
            /\ pc' = "gi_query"
            /\ UNCHANGED idn
       ELSE /\ idn' = EMPTY
            /\ pc' = "fi_check"
            /\ UNCHANGED <<instrument, openHandles>>
    /\ UNCHANGED <<startupFailure, exitCode, defaultRM, instr, instrAddress, bus, cursor, findList,
                   numInstrs, instrDesc, i, foundAddress, skipped>>
    /\ UNCHANGED connVars

\* what viQueryf("%255t") leaves in the zero-initialised idnBuffer, as a string
IdnFromReply(data) == CString(ZeroBuffer(IDN_BUFFER_SIZE, Take(data, IDN_BUFFER_SIZE - 1)))

\* getInstrumentIdn, lines 60-70: viQueryf, viClose, the returned string
GetIdnQuery ==
    /\ pc = "gi_query"
    /\ openHandles' = openHandles \ {instrument}
    /\ idn' = IF bus[cursor].query THEN IdnFromReply(bus[cursor].idn) ELSE EMPTY
    /\ pc' = "fi_check"
    /\ UNCHANGED <<startupFailure, exitCode, defaultRM, instr, instrAddress, bus, cursor, findList,
                   numInstrs, instrDesc, i, foundAddress, instrument, probes, skipped>>
    /\ UNCHANGED connVars

\* mutant of Matches: the strings are compared without lowering them
MatchesCaseSensitive(s, key) == s # EMPTY /\ Contains(s, key)

\* lines 119-121: the identity string is not empty and contains the key
Matches(s, key) == s # EMPTY /\ Contains(toLower(s), toLower(key))

\* mutant of BreakOnMatch: the loop goes on after a match
NoBreakOnMatch == FALSE

\* line 124: a match ends the loop
BreakOnMatch == TRUE

\* findInstrument, lines 114-127: the comparison, break or next iteration
CheckIdn ==
    /\ pc = "fi_check"
    /\ IF Matches(idn, KEY)
       THEN /\ foundAddress' = instrDesc
            /\ i' = IF BreakOnMatch THEN i ELSE i + 1
            /\ pc' = IF BreakOnMatch THEN "fi_close" ELSE NextIteration(i + 1)
       ELSE /\ i' = i + 1
            /\ pc' = NextIteration(i + 1)
            /\ UNCHANGED foundAddress
    /\ UNCHANGED <<startupFailure, exitCode, openHandles, defaultRM, instr, instrAddress, bus, cursor,
                   findList, numInstrs, instrDesc, idn, instrument, probes, skipped>>
    /\ UNCHANGED connVars

\* findInstrument, lines 129-135: viClose(findList), return foundAddress
CloseFindList ==
    /\ pc = "fi_close"
    /\ openHandles' = openHandles \ {findList}
    /\ pc' = "main_afterFind"
    /\ UNCHANGED <<startupFailure, exitCode, defaultRM, instr, instrAddress, bus, cursor, findList,
                   numInstrs, instrDesc, i, idn, foundAddress, instrument, probes,
                   skipped>>
    /\ UNCHANGED connVars

\* the locals of findInstrument and getInstrumentIdn, out of scope
FindLocalsGone ==
    /\ bus' = EMPTY
    /\ cursor' = 0
    /\ findList' = VI_NULL
    /\ numInstrs' = 0
    /\ instrDesc' = EMPTY
    /\ i' = 0
    /\ idn' = EMPTY
    /\ foundAddress' = EMPTY
    /\ instrument' = VI_NULL
    /\ probes' = EMPTY
    /\ skipped' = {}

\* main, lines 233-249: the result of findInstrument, viOpen of the session
OpenInstrument ==
    /\ pc = "main_afterFind"
    /\ instrAddress' = foundAddress
    /\ IF foundAddress = EMPTY
       THEN /\ openHandles' = openHandles \ {defaultRM}
            /\ exitCode' = 1
            /\ startupFailure' = "discovery"
            /\ pc' = "exit"
            /\ UNCHANGED instr
       ELSE \E ok \in BOOLEAN :
               IF ok
               THEN /\ instr' = NewHandle(openHandles)
                    /\ openHandles' = openHandles \cup {NewHandle(openHandles)}
                    /\ pc' = "main_setup"
                    /\ UNCHANGED <<exitCode, startupFailure>>
               ELSE /\ openHandles' = openHandles \ {defaultRM}
                    /\ exitCode' = 1
                    /\ startupFailure' = "session"
                    /\ pc' = "exit"
                    /\ UNCHANGED instr
    /\ FindLocalsGone
    /\ UNCHANGED defaultRM
    /\ UNCHANGED connVars

\* main, lines 251-264: io_context, acceptor, the banner; a throw of the
\* acceptor's constructor lands in the catch of line 284
Setup ==
    /\ pc = "main_setup"
    /\ \E ok \in BOOLEAN :
          /\ pc' = IF ok THEN "accept" ELSE "shutdown"
          /\ startupFailure' = IF ok THEN "none" ELSE "listener"
    /\ UNCHANGED <<exitCode, openHandles, defaultRM, instr, instrAddress>>
    /\ UNCHANGED findVars
    /\ UNCHANGED connVars

\* ---------------------------------------------------------- the clients
\* what a client sends on its connection before it closes it
ClientInputs ==
    { <<"X", "?", LF>>,
      <<"X", LF>>,
      <<"X", "?", CR, LF>>,
      <<"X", "?", " ", LF>>,
      <<"X", "?", LF, "Y", LF>>,
      <<CR, LF>>,
      <<LF>>,
      <<"X", "?">>,
      <<>> }

\* --------------------------------------------------------- the instrument
REPLY_LINE == <<"1", LF>>
REPLY_BINARY == <<"1", NUL, "2">>
REPLY_LONG == [k \in 1..READ_BUFFER_SIZE |-> "x"]

\* what the instrument puts in its output queue on receiving a line
InstrReplies == {REPLY_LINE, REPLY_BINARY, REPLY_LONG}

\* ------------------------------------------------------- the accept loop
\* main, lines 266-268: a new socket, accept; a throw of accept is outside
\* the inner try and lands in the catch of line 284
Accept ==
    /\ pc = "accept"
    /\ \/ /\ connCount < MaxConns
          /\ connCount' = connCount + 1
          /\ \E d \in ClientInputs : cliData' = d
          /\ hcCalls' = 0
          /\ hcResult' = "none"
          /\ command' = EMPTY
          /\ reply' = EMPTY
          /\ what' = EMPTY
          /\ instrWrites' = EMPTY
          /\ viReads' = 0
          /\ sent' = EMPTY
          /\ wire' = EMPTY
          /\ faults' = {}
          /\ viReadData' = EMPTY
          /\ viReadFrom' = 0
          /\ pc' = "main_logPeer"
          /\ UNCHANGED <<instrOut, hadFault>>
       \/ /\ pc' = "shutdown"
          /\ UNCHANGED connVars
    /\ UNCHANGED startVars

\* main, lines 270-273: remote_endpoint() for the log line, then the call of
\* handle_client; a throw of remote_endpoint() lands in the catch of line 278
LogPeer ==
    /\ pc = "main_logPeer"
    /\ \/ /\ hcCalls' = hcCalls + 1
          /\ pc' = "hc_read"
       \/ /\ pc' = "conn_end"
          /\ UNCHANGED hcCalls
    /\ UNCHANGED startVars
    /\ UNCHANGED <<connCount, cliData, hcResult, hadFault>>
    /\ UNCHANGED hcVars

\* --------------------------------------------------------- handle_client
\* mutant of GetLine: everything received before the last line feed
GetLineAll(data) ==
    IF IndexOf(data, LF) = 0 THEN data
    ELSE SubSeq(data, 1, (CHOOSE n \in 1..Len(data) :
                             data[n] = LF /\ \A j \in (n + 1)..Len(data) : data[j] # LF) - 1)

\* std::getline: the characters before the first line feed
GetLine(data) ==
    LET n == IndexOf(data, LF)
    IN  IF n = 0 THEN data ELSE SubSeq(data, 1, n - 1)

\* mutant of StripCRLF: only line feeds are stripped
RECURSIVE StripLFOnly(_)
StripLFOnly(s) ==
    IF s = EMPTY THEN s
    ELSE IF Last(s) = LF THEN StripLFOnly(Front(s)) ELSE s

\* line 164: command.erase(command.find_last_not_of("\r\n") + 1)
RECURSIVE StripCRLF(_)
StripCRLF(s) ==
    IF s = EMPTY THEN s
    ELSE IF Last(s) \in {CR, LF} THEN StripCRLF(Front(s)) ELSE s

\* mutant of IsQuery: the last character that is not a blank decides
RECURSIVE IsQueryTrimmed(_)
IsQueryTrimmed(cmd) ==
    IF cmd = EMPTY THEN FALSE
    ELSE IF Last(cmd) \in {" ", "\t"} THEN IsQueryTrimmed(Front(cmd))
    ELSE Last(cmd) = "?"

\* line 183: command.back() == '?'
IsQuery(cmd) == Last(cmd) = "?"

\* boost::asio::buffer over a string literal: the whole char array, its
\* terminating NUL included
BufferOfLiteral(lit) == Append(lit, NUL)

\* boost::asio::buffer over a std::string: its size() characters
BufferOfString(str) == str

\* mutant of ReplyFromBuffer: std::string(response_buffer.data())
ReplyAsCString(buffer, retCount) == CString(buffer)

\* line 190: std::string(response_buffer.data(), retCount)
ReplyFromBuffer(buffer, retCount) == SubSeq(buffer, 1, retCount)

\* how much of a buffer reaches the client when the socket write throws:
\* any proper prefix can; two are kept, none of it and all but the last byte
PartialLens(msg) == {0, Len(msg) - 1}

\* boost::asio::write: everything is written, or it throws
SocketWrite(msg, ok, n) ==
    /\ sent' = Append(sent, msg)
    /\ wire' = wire \o (IF ok THEN msg ELSE Take(msg, n))

\* handle_client, lines 148-169: read_until, getline, strip, the empty line
HcRead ==
    /\ pc = "hc_read"
    /\ \/ \* read error other than eof: system_error is thrown
          /\ faults' = faults \cup {"client_read"}
          /\ what' = <<"read_until: error">>
          /\ pc' = "hc_catch"
          /\ UNCHANGED <<command, hcResult>>
       \/ \* eof before a line feed: return
          /\ IndexOf(cliData, LF) = 0
          /\ hcResult' = "returned"
          /\ pc' = "conn_end"
          /\ UNCHANGED <<command, what, faults>>
       \/ /\ IndexOf(cliData, LF) # 0
          /\ command' = StripCRLF(GetLine(cliData))
          /\ IF StripCRLF(GetLine(cliData)) = EMPTY
             THEN /\ hcResult' = "returned"
                  /\ pc' = "conn_end"
             ELSE /\ pc' = "hc_viWrite"
                  /\ UNCHANGED hcResult
          /\ UNCHANGED <<what, faults>>
    /\ UNCHANGED startVars
    /\ UNCHANGED <<connCount, cliData, hcCalls, hadFault, reply, instrOut, instrWrites,
                   viReads, sent, wire, viReadData, viReadFrom>>

\* mutant of AfterViWrite: the status of viWrite is not looked at
AfterViWriteUnchecked(ok, cmd) == IF IsQuery(cmd) THEN "hc_viRead" ELSE "hc_send"

\* lines 175 and 183: where handle_client goes after viWrite
AfterViWrite(ok, cmd) ==
    IF ~ok THEN "hc_writeError"
    ELSE IF IsQuery(cmd) THEN "hc_viRead" ELSE "hc_send"

\* handle_client, lines 171-181: viWrite of the line, the default reply.
\* The instrument may answer the line it received, and it keeps or drops the
\* output nobody has read yet (instruments differ).
HcViWrite ==
    /\ pc = "hc_viWrite"
    /\ instrWrites' = Append(instrWrites, Append(command, LF))
    /\ \/ \* status < VI_SUCCESS
          /\ faults' = faults \cup {"vi_write"}
          /\ pc' = AfterViWrite(FALSE, command)
          /\ UNCHANGED <<reply, instrOut>>
       \/ \E r \in InstrReplies \cup {EMPTY}, kept \in BOOLEAN :
             /\ instrOut' = (IF kept THEN instrOut ELSE EMPTY)
                            \o (IF r = EMPTY THEN EMPTY
                                ELSE <<[req |-> connCount, data |-> r]>>)
             /\ reply' = ACK_TEXT
             /\ pc' = AfterViWrite(TRUE, command)
             /\ UNCHANGED faults
    /\ UNCHANGED startVars
    /\ UNCHANGED <<connCount, cliData, hcCalls, hcResult, hadFault, command, what,
                   viReads, sent, wire, viReadData, viReadFrom>>

\* mutant of AfterWriteError: the return of line 178 is missing
AfterWriteErrorFallsThrough == "hc_send"

\* line 178: return after the write-error message
AfterWriteError == "conn_end"

\* handle_client, lines 175-179: the write-error message, return
HcWriteError ==
    /\ pc = "hc_writeError"
    /\ \/ /\ SocketWrite(BufferOfLiteral(WRITE_ERROR_LITERAL), TRUE, 0)
          /\ hcResult' = IF AfterWriteError = "conn_end" THEN "returned" ELSE hcResult
          /\ pc' = AfterWriteError
          /\ UNCHANGED <<what, faults>>
       \/ \E n \in PartialLens(BufferOfLiteral(WRITE_ERROR_LITERAL)) :
             /\ SocketWrite(BufferOfLiteral(WRITE_ERROR_LITERAL), FALSE, n)
             /\ faults' = faults \cup {"client_write"}
             /\ what' = <<"write: error">>
             /\ pc' = "hc_catch"
             /\ UNCHANGED hcResult
    /\ UNCHANGED startVars
    /\ UNCHANGED <<connCount, cliData, hcCalls, hadFault, command, reply, instrOut,
                   instrWrites, viReads, viReadData, viReadFrom>>

\* handle_client, lines 183-196: viRead of at most READ_BUFFER_SIZE - 1
\* bytes into the zero-initialised buffer, the reply string
HcViRead ==
    /\ pc = "hc_viRead"
    /\ viReads' = viReads + 1
    /\ \/ \* status < VI_SUCCESS
          /\ faults' = faults \cup {"vi_read"}
          /\ reply' = READ_ERROR_TEXT
          /\ UNCHANGED <<instrOut, viReadData, viReadFrom>>
       \/ /\ instrOut # EMPTY
          /\ LET message == Head(instrOut).data
                 data == Take(message, READ_BUFFER_SIZE - 1)
                 rest == Drop(message, READ_BUFFER_SIZE - 1)
                 response_buffer == ZeroBuffer(READ_BUFFER_SIZE, data)
                 retCount == Len(data)
             IN  /\ reply' = ReplyFromBuffer(response_buffer, retCount)
                 /\ viReadData' = data
                 /\ viReadFrom' = Head(instrOut).req
                 /\ instrOut' = IF rest = EMPTY THEN Tail(instrOut)
                                ELSE <<[Head(instrOut) EXCEPT !.data = rest]>>
                                     \o Tail(instrOut)
          /\ UNCHANGED faults
    /\ pc' = "hc_send"
    /\ UNCHANGED startVars
    /\ UNCHANGED <<connCount, cliData, hcCalls, hcResult, hadFault, command, what,
                   instrWrites, sent, wire>>

\* handle_client, lines 198-200: the reply and a line feed, to the client
HcSend ==
    /\ pc = "hc_send"
    /\ \/ /\ SocketWrite(BufferOfString(Append(reply, LF)), TRUE, 0)
          /\ hcResult' = "returned"
          /\ pc' = "conn_end"
          /\ UNCHANGED <<what, faults>>
       \/ \E n \in PartialLens(BufferOfString(Append(reply, LF))) :
             /\ SocketWrite(BufferOfString(Append(reply, LF)), FALSE, n)
             /\ faults' = faults \cup {"client_write"}
             /\ what' = <<"write: error">>
             /\ pc' = "hc_catch"
             /\ UNCHANGED hcResult
    /\ UNCHANGED startVars
    /\ UNCHANGED <<connCount, cliData, hcCalls, hadFault, command, reply, instrOut,
                   instrWrites, viReads, viReadData, viReadFrom>>

\* mutant of CatchAll: the notification is written outside any try
NoCatchAll == FALSE

\* line 208: catch (...) swallows a failure of the notification
CatchAll == TRUE

\* handle_client, lines 203-211: the handler; its own write is best effort
HcCatch ==
    /\ pc = "hc_catch"
    /\ \/ /\ SocketWrite(BufferOfString(SERVER_ERROR_PREFIX \o what \o <<LF>>), TRUE, 0)
          /\ hcResult' = "returned"
          /\ UNCHANGED faults
       \/ \E n \in PartialLens(BufferOfString(SERVER_ERROR_PREFIX \o what \o <<LF>>)) :
             /\ SocketWrite(BufferOfString(SERVER_ERROR_PREFIX \o what \o <<LF>>), FALSE, n)
             /\ faults' = faults \cup {"client_write"}
             /\ hcResult' = IF CatchAll THEN "returned" ELSE "threw"
    /\ pc' = "conn_end"
    /\ UNCHANGED startVars
    /\ UNCHANGED <<connCount, cliData, hcCalls, hadFault, command, reply, what, instrOut,
                   instrWrites, viReads, viReadData, viReadFrom>>

\* mutant of AfterConnection: a failed connection ends the loop
AfterConnectionFatal(failed) == IF failed # {} THEN "shutdown" ELSE "accept"

\* lines 266 and 278: the loop goes on whatever happened to the connection
AfterConnection(failed) == "accept"

\* main, lines 275-281: handle_client is back (or the catch of line 278 ran),
\* the socket goes out of scope, the loop goes round
ConnEnd ==
    /\ pc = "conn_end"
    /\ pc' = AfterConnection(faults)
    /\ hadFault' = (hadFault \/ faults # {})
    /\ UNCHANGED startVars
    /\ UNCHANGED <<connCount, cliData, hcCalls, hcResult>>
    /\ UNCHANGED hcVars

\* mutant of CloseInstr: the session is left open
CloseInstrForgotten(handles) == handles

\* line 289: if (instr != VI_NULL) viClose(instr)
CloseInstr(handles) == IF instr # VI_NULL THEN handles \ {instr} ELSE handles

\* line 292: if (defaultRM != VI_NULL) viClose(defaultRM)
CloseRM(handles) == IF defaultRM # VI_NULL THEN handles \ {defaultRM} ELSE handles

\* main, lines 284-296: the catch of the outer try, the shutdown, return 0
Shutdown ==
    /\ pc = "shutdown"
    /\ openHandles' = CloseRM(CloseInstr(openHandles))
    /\ exitCode' = 0
    /\ pc' = "exit"
    /\ UNCHANGED <<startupFailure, defaultRM, instr, instrAddress>>
    /\ UNCHANGED findVars
    /\ UNCHANGED connVars

\* ------------------------------------------------------ the specification
Init ==
    /\ pc = "main_openRM"
    /\ startupFailure = "none"
    /\ exitCode = -1
    /\ openHandles = {}
    /\ defaultRM = VI_NULL
    /\ instr = VI_NULL
    /\ instrAddress = EMPTY
    /\ bus = EMPTY
    /\ cursor = 0
    /\ findList = VI_NULL
    /\ numInstrs = 0
    /\ instrDesc = EMPTY
    /\ i = 0
    /\ idn = EMPTY
    /\ foundAddress = EMPTY
    /\ instrument = VI_NULL
    /\ probes = EMPTY
    /\ skipped = {}
    /\ connCount = 0
    /\ cliData = EMPTY
    /\ hcCalls = 0
    /\ hcResult = "none"
    /\ command = EMPTY
    /\ reply = EMPTY
    /\ what = EMPTY
    /\ instrOut = EMPTY
    /\ instrWrites = EMPTY
    /\ viReads = 0
    /\ sent = EMPTY
    /\ wire = EMPTY
    /\ faults = {}
    /\ viReadData = EMPTY
    /\ hadFault = FALSE
    /\ viReadFrom = 0

Next ==
    \/ OpenDefaultRM
    \/ FindRsrc
    \/ FindNext
    \/ GetIdnOpen
    \/ GetIdnQuery
    \/ CheckIdn
    \/ CloseFindList
    \/ OpenInstrument
    \/ Setup
    \/ Accept
    \/ LogPeer
    \/ HcRead
    \/ HcViWrite
    \/ HcWriteError
    \/ HcViRead
    \/ HcSend
    \/ HcCatch
    \/ ConnEnd
    \/ Shutdown

Spec == Init /\ [][Next]_vars

\* ============================================================== claims

\* handle_client was called for the current connection and is back in main
HandleClientDone == pc = "conn_end" /\ hcCalls = 1

\* the program is inside handle_client, or just back from it
InHandleClient ==
    pc \in {"hc_read", "hc_viWrite", "hc_writeError", "hc_viRead", "hc_send",
            "hc_catch", "conn_end"}

\* the request line handle_client forwarded, and its last character
HasRequest == command # EMPTY
EndsInQuestionMark == command[Len(command)] = "?"

\* the first buffer handle_client passed to the socket write: its response
Response == sent[1]

WriteErrorMessage == WRITE_ERROR_LITERAL \o <<NUL>>

\* ----------------------------------------------------------------- C1
\* C1 as stated: for every request line whose last character is not '?',
\* no viRead is issued and the response written to the client is the fixed
\* acknowledgment string (followed by the line feed).
C1_Original ==
    (HasRequest /\ ~EndsInQuestionMark)
        => /\ viReads = 0
           /\ HandleClientDone => (sent # EMPTY /\ Response = ACK_TEXT \o <<LF>>)

\* C1 amended: for every request line whose last character is not '?', no
\* viRead is ever issued; the response written to the client is the fixed
\* acknowledgment followed by a line feed when viWrite succeeded, and the
\* fixed write-error message when viWrite failed; the client receives that
\* response, and nothing else, unless the socket write itself failed.
C1_NonQueryNeverReads ==
    (HasRequest /\ ~EndsInQuestionMark)
        => /\ viReads = 0
           /\ pc # "hc_viRead"
           /\ HandleClientDone =>
                 /\ sent # EMPTY
                 /\ Response = IF "vi_write" \in faults THEN WriteErrorMessage
                                ELSE ACK_TEXT \o <<LF>>
                 /\ "client_write" \notin faults => (sent = <<Response>> /\ wire = Response)

\* a line ending in blanks after a '?' was acknowledged without a read
C1_Witness ==
    /\ HandleClientDone
    /\ command = <<"X", "?", " ">>
    /\ faults = {}
    /\ wire = ACK_TEXT \o <<LF>>
    /\ instrWrites = <<(<<"X", "?", " ", LF>>)>>

\* ----------------------------------------------------------------- C2
\* C2 as stated: for every request line whose last character is '?', exactly
\* one bounded viRead is performed and the response is exactly the bytes
\* the read reported, followed by a single line feed.
C2_Original ==
    (HandleClientDone /\ HasRequest /\ EndsInQuestionMark)
        => /\ viReads = 1
           /\ sent # EMPTY
           /\ Response = viReadData \o <<LF>>

\* C2 amended: for every request line whose last character is '?', when
\* viWrite succeeded exactly one viRead of at most READ_BUFFER_SIZE - 1 bytes
\* is performed, and when that read succeeded the response is exactly the
\* retCount bytes it reported followed by a single line feed; when viWrite
\* failed no read is performed and the response is the write-error message,
\* and when viRead failed the response is the read-error text and a line
\* feed.  The client receives the response unless the socket write failed.
C2_QueryRelaysBytesRead ==
    (HandleClientDone /\ HasRequest /\ EndsInQuestionMark)
        => /\ sent # EMPTY
           /\ "vi_write" \in faults => (viReads = 0 /\ Response = WriteErrorMessage)
           /\ "vi_write" \notin faults =>
                 /\ viReads = 1
                 /\ Len(viReadData) <= READ_BUFFER_SIZE - 1
                 /\ Response = IF "vi_read" \in faults THEN READ_ERROR_TEXT \o <<LF>>
                                ELSE viReadData \o <<LF>>
           /\ "client_write" \notin faults => (sent = <<Response>> /\ wire = Response)

\* a reply with a NUL inside was relayed whole, with one line feed after it
C2_Witness ==
    /\ HandleClientDone
    /\ command = <<"X", "?">>
    /\ faults = {}
    /\ viReads = 1
    /\ viReadData = REPLY_BINARY
    /\ wire = <<"1", NUL, "2", LF>>

\* ----------------------------------------------------------------- C3
\* C3: whenever viWrite reports failure, the response is the fixed
\* write-error text (the client receives it when the socket write
\* succeeds), no viRead is attempted for that request even if the line ends
\* in '?', and handle_client stops: no further instrument call, and it
\* returns.
C3_WriteFailureStops ==
    ("vi_write" \in faults)
        => /\ viReads = 0
           /\ InHandleClient => pc \in {"hc_writeError", "hc_catch", "conn_end"}
           /\ Len(instrWrites) = 1
           /\ pc # "hc_writeError" =>
                 /\ sent # EMPTY
                 /\ SubSeq(Response, 1, Len(WRITE_ERROR_LITERAL)) = WRITE_ERROR_LITERAL
           /\ HandleClientDone =>
                 /\ hcResult = "returned"
                 /\ "client_write" \notin faults => (sent = <<Response>> /\ wire = Response)

\* viWrite of a query line failed and the client got the write-error text
C3_Witness ==
    /\ HandleClientDone
    /\ command = <<"X", "?">>
    /\ faults = {"vi_write"}
    /\ viReads = 0
    /\ SubSeq(wire, 1, Len(WRITE_ERROR_LITERAL)) = WRITE_ERROR_LITERAL

\* ----------------------------------------------------------------- C4
\* the client closed before a line feed arrived
CleanEof == IndexOf(cliData, LF) = 0

\* the first line holds nothing but carriage returns (and its line feed)
FirstLineBlank ==
    /\ IndexOf(cliData, LF) # 0
    /\ \A k \in 1..IndexOf(cliData, LF) : cliData[k] \in {CR, LF}

\* C4: on a clean EOF before a complete line, and on a line that is empty
\* after stripping trailing \r and \n, handle_client performs no viWrite, no
\* viRead and no write to the client, and returns normally.
C4_NoLineNoEffect ==
    (hcCalls = 1 /\ "client_read" \notin faults /\ (CleanEof \/ FirstLineBlank))
        => /\ instrWrites = EMPTY
           /\ viReads = 0
           /\ sent = EMPTY
           /\ wire = EMPTY
           /\ InHandleClient => pc \in {"hc_read", "conn_end"}
           /\ pc = "conn_end" => hcResult = "returned"

\* a line of "\r\n" was read and handle_client returned
C4_Witness ==
    /\ HandleClientDone
    /\ cliData = <<CR, LF>>
    /\ hcResult = "returned"
    /\ faults = {}

\* ----------------------------------------------------------------- C5
\* C5 as stated: every response the bridge writes to the client, on every
\* path, is newline-terminated: the last byte passed to the socket write is
\* a line feed.
C5_Original ==
    \A k \in 1..Len(sent) : sent[k][Len(sent[k])] = LF

\* ----------------------------------------------------------------- C6
\* a buffer that starts with one of the three diagnostic texts
IsDiagnostic(msg) ==
    msg[1] \in {WRITE_ERROR_LITERAL[1], READ_ERROR_TEXT[1], SERVER_ERROR_PREFIX[1]}

\* C6: handle_client never propagates a failure: whatever combination of
\* client-read, viWrite, viRead and client-write failures occurs it returns
\* normally, and on every failure path it has passed a diagnostic response
\* to the socket write.
C6_NeverPropagates ==
    /\ hcResult \in {"none", "returned"}
    /\ HandleClientDone =>
          /\ hcResult = "returned"
          /\ faults # {} => \E k \in 1..Len(sent) : IsDiagnostic(sent[k])
          /\ "client_read" \in faults => IsDiagnostic(Response)
          /\ "vi_read" \in faults => IsDiagnostic(Response)
          /\ "client_write" \in faults => IsDiagnostic(sent[Len(sent)])

\* viWrite failed, the write of the write-error message failed, and so did
\* the write of the handler's notification: handle_client still returned
C6_Witness ==
    /\ HandleClientDone
    /\ faults = {"vi_write", "client_write"}
    /\ Len(sent) = 2
    /\ wire = EMPTY
    /\ hcResult = "returned"

\* ----------------------------------------------------------------- C7
\* the accept loop: accept, the log line, handle_client, the end of the body
LoopPcs == {"accept", "main_logPeer"} \cup
           {"hc_read", "hc_viWrite", "hc_writeError", "hc_viRead", "hc_send",
            "hc_catch", "conn_end"}

\* the state handle_client starts from
FreshConnection ==
    /\ hcCalls = 0 /\ hcResult = "none" /\ command = EMPTY /\ reply = EMPTY
    /\ instrWrites = EMPTY /\ viReads = 0 /\ sent = EMPTY /\ wire = EMPTY
    /\ faults = {}

\* C7: a failed viWrite, viRead, client read or client write during one
\* connection never ends the accept loop or the process: while and after
\* the connection is handled the process runs with the same instrument
\* session open, the loop goes back to accept, and the next connection
\* starts from the same state as the first one.
C7_FailureConfined ==
    /\ [][(pc = "conn_end" /\ faults # {})
            => /\ pc' = "accept"
               /\ exitCode' = -1
               /\ instr' = instr
               /\ {instr, defaultRM} \subseteq openHandles']_vars
    /\ []((pc \in LoopPcs /\ (faults # {} \/ hadFault))
            => (exitCode = -1 /\ {instr, defaultRM} \subseteq openHandles))
    /\ []((pc = "main_logPeer" /\ hadFault) => FreshConnection)

\* after a connection with a failure, the next one was acknowledged
C7_Witness ==
    /\ hadFault
    /\ connCount = 2
    /\ HandleClientDone
    /\ faults = {}
    /\ command = <<"X">>
    /\ wire = ACK_TEXT \o <<LF>>
    /\ instr \in openHandles

\* ----------------------------------------------------------------- C8
\* C8 as stated: for each accepted connection handle_client is invoked
\* exactly once before the connection is discarded and the loop returns to
\* accept.
C8_Original ==
    pc = "conn_end" => hcCalls = 1

IsTek(r) == r.open /\ r.query /\ r.idn \in {IDN_TEK_UPPER, IDN_TEK_MIXED}

\* the positions of the find list that hold such a resource
MatchPositions == {k \in 1..Len(bus) : IsTek(bus[k])}

\* the positions getInstrumentIdn was called on
Probed == {probes[k] : k \in 1..Len(probes)}

Least(S) == CHOOSE k \in S : \A j \in S : k <= j

FindInstrumentReturned == pc = "main_afterFind"

C13_Original ==
    (pc = "exit" /\ startupFailure # "none")
        => (exitCode # 0 /\ openHandles \cap {defaultRM, instr} = {})

\* ---------------------------------------------------------------- C14
\* the positions of the request line that hold neither a space nor a tab
NonBlankPositions == {k \in 1..Len(command) : command[k] \notin {" ", "\t"}}

LastNonBlankIsQuestionMark ==
    /\ NonBlankPositions # {}
    /\ \E k \in NonBlankPositions :
          /\ \A j \in NonBlankPositions : j <= k
          /\ command[k] = "?"

\* C14 as stated: a request line is treated as a query, and a viRead follows
\* its viWrite, exactly when its last character that is not white space is
\* '?'; a line such as "X? " triggers a read.
C14_Original ==
    (HandleClientDone /\ HasRequest /\ "vi_write" \notin faults)
        => (viReads = 1 <=> LastNonBlankIsQuestionMark)

\* ---------------------------------------------------------------- C15
\* the positions of a message that hold a line feed
LineFeeds(msg) == {k \in 1..Len(msg) : msg[k] = LF}

\* C15 as stated: each response on the wire is exactly one line: it holds
\* exactly one line feed, and that is its last byte, whatever the request and
\* whatever the instrument replied.
C15_Original ==
    (HandleClientDone /\ sent # EMPTY /\ "client_write" \notin faults)
        => LineFeeds(wire) = {Len(wire)}

\* ---------------------------------------------------------------- C16
\* C16: there is exactly one long-lived instrument session.  It is opened
\* once, at start-up, after discovery has returned and closed its own
\* handles; while connections are served it stays the same open session, and
\* nothing opens or closes a handle between or during connections; the
\* instrument is written to and read from only inside the one handle_client
\* call that is running; the session is closed only by the shutdown code,
\* which does close it.
C16_OneLongLivedSession ==
    /\ [](pc \in LoopPcs =>
             /\ instr # VI_NULL
             /\ instr # defaultRM
             /\ openHandles = {defaultRM, instr})
    /\ [][(instr' # instr) =>
             /\ pc = "main_afterFind" /\ pc' = "main_setup"
             /\ instr = VI_NULL
             /\ openHandles = {defaultRM}
             /\ openHandles' = {defaultRM, instr'}]_vars
    /\ [][(pc \in LoopPcs /\ pc' \in LoopPcs) =>
             (instr' = instr /\ openHandles' = openHandles)]_vars
    /\ [](pc \in {"hc_viWrite", "hc_viRead"} => (hcCalls = 1 /\ instr \in openHandles))
    /\ [][(instr \in openHandles /\ instr \notin openHandles') =>
             (pc = "shutdown" /\ pc' = "exit")]_vars
    /\ [][(pc = "shutdown") => (instr \notin openHandles')]_vars

\* two connections were served, both forwarded a line over the session
\* opened at start-up, and the shutdown code then closed it
C16_Witness ==
    /\ pc = "exit"
    /\ connCount = 2
    /\ hadFault = FALSE
    /\ instrWrites # EMPTY
    /\ instr # VI_NULL
    /\ instr \notin openHandles

\* ---------------------------------------------------------------- C17
\* the first line the client sent, without its line feed and without the
\* carriage returns before it
FirstLineStripped ==
    LET line == SubSeq(cliData, 1, IndexOf(cliData, LF) - 1)
        keep == CHOOSE p \in 0..Len(line) :
                    /\ p > 0 => line[p] # CR
                    /\ \A q \in (p + 1)..Len(line) : line[q] = CR
    IN  SubSeq(line, 1, keep)

\* C17: for each connection at most one viWrite and at most one viRead are
\* issued; the viWrite carries exactly the first received line, stripped of
\* its trailing carriage returns and line feed, followed by a single line
\* feed; a viRead only follows a successful viWrite of the same connection;
\* lines after the first are never forwarded.
C17_OneWriteOneRead ==
    /\ Len(instrWrites) <= 1
    /\ viReads <= 1
    /\ instrWrites # EMPTY =>
          /\ IndexOf(cliData, LF) # 0
          /\ instrWrites[1] = FirstLineStripped \o <<LF>>
    /\ (viReads = 1 \/ pc = "hc_viRead") =>
          (Len(instrWrites) = 1 /\ "vi_write" \notin faults)

\* the client sent two lines: only the first went to the instrument, once,
\* and one read followed
C17_Witness ==
    /\ HandleClientDone
    /\ cliData = <<"X", "?", LF, "Y", LF>>
    /\ instrWrites = << <<"X", "?", LF>> >>
    /\ viReads = 1
    /\ faults = {}

\* ---------------------------------------------------------------- C18
\* C18 as stated: for each connection the bridge attempts at most one write
\* to the client, also when the write of the normal or of the write-error
\* response fails and the exception handler runs.
C18_Original == Len(sent) <= 1

\* C18 amended: for each connection the bridge attempts at most two writes
\* to the client.  The second is the handler's notification and is attempted
\* only after the write of the normal or of the write-error response threw;
\* as long as no write failed there is one attempt at most, and what the
\* client received is exactly that message.
C18_SecondWriteOnlyAfterFailure ==
    /\ Len(sent) <= 2
    /\ Len(sent) = 2 =>
          /\ "client_write" \in faults
          /\ sent[1][1] # SERVER_ERROR_PREFIX[1]
          /\ sent[2] = SERVER_ERROR_PREFIX \o <<"write: error", LF>>
          /\ Len(wire) < Len(sent[1]) + Len(sent[2])
    /\ "client_write" \notin faults =>
          /\ Len(sent) <= 1
          /\ (HandleClientDone /\ sent # EMPTY) => wire = sent[1]

\* the write of the write-error message broke off before its last byte, and
\* the handler's notification was then written in full
C18_Witness ==
    /\ HandleClientDone
    /\ Len(sent) = 2
    /\ sent[1] = WriteErrorMessage
    /\ wire = Take(sent[1], Len(sent[1]) - 1) \o sent[2]

\* ---------------------------------------------------------------- C19
\* C19 as stated: the bytes relayed for a query are bytes the instrument
\* produced in answer to that same query; output left over from an earlier
\* request is never what a later query's viRead returns.
C19_Original ==
    (InHandleClient /\ viReads = 1 /\ "vi_read" \notin faults)
        => viReadFrom = connCount

\* ---------------------------------------------------------------- C20
\* C20 as stated: discovery leaks no handle.  When findInstrument has
\* returned, on whatever path, the find list and every transient session are
\* closed; at most one transient session is open at any moment, and none is
\* open when the long-lived session is opened.
C20_Original ==
    /\ FindInstrumentReturned => openHandles = {defaultRM}
    /\ Cardinality(openHandles \ {defaultRM, findList, instr}) <= 1
    /\ pc = "main_setup" => openHandles = {defaultRM, instr}

====
